---- MODULE Spec2Model ----
(***************************************************************************)
(* Model of the two Redis input processors of the Baqyt agent:             *)
(*   RedisStopProcessor      (src/src/mastra/processors/redis-stop-processor.ts) *)
(*   RedisBatchingProcessor  (src/unnamed/part_000)                        *)
(* run in that order by the agent (src/src/mastra/agents/baqyt-agent.ts).  *)
(*                                                                         *)
(* Every invocation (one inbound request) is a process p.  One action is   *)
(* one command on the shared store together with the local computation     *)
(* (ensureRedis of the invocation's own client included) that leads to the *)
(* next command.                                                           *)
(*                                                                         *)
(* Time.  The code reads the clock only as a difference                    *)
(* (Date.now() - createdAt) and gives Redis relative durations (PX,        *)
(* PEXPIRE), so every time in the model is kept relative to the current    *)
(* instant: Now is 0, a createdAt is <= 0, a time to live or a timer is    *)
(* the number of milliseconds left, and Tick moves all of them by tickMs.  *)
(* A createdAt older than windowMs + tickMs is kept at that age: the code  *)
(* only asks whether the silence has reached windowMs.                     *)
(***************************************************************************)
EXTENDS Integers, Sequences, FiniteSets, TLC

\* ------------------------------------------------------------------ bounds
NumProcs == 3          \* concurrent invocations
MaxClock == 40         \* ticks counted by the wall clock `clock`
MaxCrashes == 1        \* processes that vanish in one behaviour
MaxEntries == 3        \* entries a list holds at most
MaxFailures == 2       \* store calls that fail in one behaviour
MaxInput == 3          \* messages in the input of one invocation
MaxAttempts == 3       \* connects one gate instance begins

Procs == 1 .. NumProcs

\* ------------------------------------------------------- program constants
PollMs == 250                    \* cap of one sleep in awaitQuietWindow
TtlFactor == 3                   \* list and lock live windowMs * 3

Undef == "undefined"             \* JavaScript undefined / null
Now == 0                         \* Date.now(), relative to the current instant

UserIds == {"u1", "u2"}

VARIABLES
  windowMs,     \* this.windowMs of the batching processor
  tickMs,       \* granularity of the clock of this specification
  useResolver,  \* whether the processors were built with userIdResolver
  optUrl,       \* the redisUrl option given to the constructors, or Undef
  envUrl,       \* process.env.REDIS_URL, or Undef
  gate,         \* "new" before the constructors ran, then "ready" or "configError"
  stop,         \* store: stop[u] is the value of <stop prefix>:u, or Undef
  list,         \* store: list[u] is the Redis list <batch prefix>:u (raw strings)
  listTtl,      \* store: ms to live of that list, NoTtl when it has no expiry
  lock,         \* store: whether <batch prefix>:u:lock exists
  lockTtl,      \* store: ms to live of the lock
  input,        \* input[p]: the messages invocation p is called with
  pc,           \* pc[p]: where invocation p stands
  stamp,        \* stamp[p]: the createdAt p put into its entry
  sleepLeft,    \* sleepLeft[p]: ms left of p's sleep()
  batch,        \* batch[p]: batchedPayload of p
  out,          \* out[p]: the sequence p returned
  reason,       \* reason[p]: the reason p gave to abort(), or the error
  owner,        \* history: owner[u] is the invocation whose SET NX made the lock
  lapsed,       \* history: a lock of u ran out of time under a leader, and leaders remain
  pushed,       \* history: pushed[p], p's rPush was applied
  clock,        \* history: ms since the start, counted up to MaxClock ticks
  crashAge,     \* history: ms since p vanished in its quiet-window wait, or NoCrash
  late,         \* history: p arrived more than Ttl after a leader of its key vanished
  faults,       \* history: how many processes vanished and store calls failed
  delFailed,    \* history: the redis.del(lockKey) of p's catch block failed
  arrival,      \* arrival[p]: the clock at which p is to start, or NoArrival
  hook,         \* the webhook service: its expectedAuthToken, and the header, the
                \* payload and the result of the last handleWebhook call
  applied,      \* history: applied[u], the ids of the appends applied to the list of u
                \* since it was made, in the order the store applied them
  pending,      \* history: pending[p], where p stood with a store call in flight or
                \* a timer due when time last passed, "" when it had neither
  conn          \* the store client of one gate instance and the gate's connectPromise:
                \* isOpen, the remembered attempt, the connects in flight and begun,
                \* and where each invocation stands in ensureRedis

vars == << windowMs, tickMs, useResolver, optUrl, envUrl, gate, stop, list, listTtl, lock, lockTtl,
           input, pc, stamp, sleepLeft, batch, out, reason,
           owner, lapsed, pushed, clock, crashAge, late, delFailed, faults,
           arrival, applied, hook, pending, conn >>

histVars == << crashAge, late, delFailed, faults >>

\* everything but the store client and the remembered connect attempt
gateVars == << windowMs, tickMs, useResolver, optUrl, envUrl, gate, stop, list, listTtl, lock,
               lockTtl, input, pc, stamp, sleepLeft, batch, out, reason,
               owner, lapsed, pushed, clock, crashAge, late, delFailed, faults,
               arrival, applied, hook, pending >>

cfgVars == << windowMs, tickMs, useResolver, optUrl, envUrl, gate, stop, input, arrival,
             hook >>
storeVars == << list, listTtl, lock, lockTtl, applied >>

NoTtl == -1
NoProc == 0
NoArrival == -1
NoCrash == -1

\* ---------------------------------------------------------------- messages
\* A MastraMessageV2, as far as the processors read it.  parts stands for
\* content.parts, userId for content.metadata.userId; the three batch fields
\* are the metadata mergeMessages adds.  createdAt of the envelope is the
\* moment the message was received, or the moment of the merge (new Date()).
Message(id, role, threadId, resourceId, userId, parts) ==
  [ id |-> id, role |-> role, threadId |-> threadId, resourceId |-> resourceId,
    userId |-> userId, parts |-> parts, createdAt |-> "received",
    batched |-> FALSE, batchWindowMs |-> 0, originalMessageIds |-> << >> ]

MsgId(p) == "m" \o ToString(p)

\* the user message of invocation p for conversation u, known by metadata.userId
UserMsg(p, u) == Message(MsgId(p), "user", Undef, Undef, u, << MsgId(p) >>)

\* ----------------------------------------------------------- pure functions
RECURSIVE LastUserIndex(_, _)
LastUserIndex(ms, i) ==
  IF i = 0 THEN 0
  ELSE IF ms[i].role = "user" THEN i ELSE LastUserIndex(ms, i - 1)

\* [...messages].reverse().find((message) => message.role === 'user')
LastUserMessage(ms) == ms[LastUserIndex(ms, Len(ms))]

\* whether that find() found a message
HasUserMessage(ms) == LastUserIndex(ms, Len(ms)) /= 0

\* a ?? b
Coalesce(a, b) == IF a /= Undef THEN a ELSE b

\* resolveConversationId of the agent
resolveConversationId(m) == Coalesce(Coalesce(m.userId, m.threadId), m.resourceId)

\* the userId both processors compute
ResolveUserId(m) ==
  LET custom == IF useResolver THEN resolveConversationId(m) ELSE Undef
  IN Coalesce(Coalesce(Coalesce(custom, m.threadId), m.resourceId), m.userId)

\* !userId
Unresolved(u) == u = Undef \/ u = ""

\* keys built without the identifier: every conversation shares one
KeyShared(p) == "u1"

\* the identifier p's listKey and lockKey are built from
KeyOf(p) == ResolveUserId(LastUserMessage(input[p]))

\* a comparison that keeps the case of the value
SameCase(v) == v

\* value.toLowerCase(), on the values a stop flag takes here
ToLower(v) ==
  IF v \in { "false", "False", "FALSE", "fAlSe" } THEN "false"
  ELSE IF v \in { "true", "TRUE" } THEN "true"
  ELSE IF v \in { "stop", "Stop" } THEN "stop"
  ELSE v

\* a predicate that takes "1" for the value that does not stop
IsStoppedMutant(value) ==
  value /= Undef /\ value /= "" /\ value /= "1" /\ ToLower(value) /= "false"

\* defaultIsStopped
defaultIsStopped(value) ==
  value /= Undef /\ value /= "" /\ value /= "0" /\ ToLower(value) /= "false"

\* JSON.stringify / JSON.parse of a BatchedMessage
Stringify(e) == << "{id,content,createdAt}", e.id, e.content, e.createdAt >>
Parse(raw) == [ id |-> raw[2], content |-> raw[3], createdAt |-> raw[4] ]

Ttl == windowMs * TtlFactor

Min(a, b) == IF a <= b THEN a ELSE b
Max(a, b) == IF a >= b THEN a ELSE b

RECURSIVE FlatParts(_)
\* batchedMessages.flatMap((entry) => entry.content.parts)
FlatParts(es) ==
  IF es = << >> THEN << >> ELSE Head(es).content.parts \o FlatParts(Tail(es))

\* batchedMessages.map((entry) => entry.id)
EntryIds(es) == [ i \in 1 .. Len(es) |-> es[i].id ]

\* a merge that keeps the template's id
mergeKeepingId(batchedMessages, template) ==
  [ template EXCEPT
      !.createdAt = "merged",
      !.parts = FlatParts(batchedMessages),
      !.batched = TRUE,
      !.batchWindowMs = windowMs,
      !.originalMessageIds = EntryIds(batchedMessages) ]

mergeMessages(batchedMessages, template) ==
  [ template EXCEPT
      !.id = template.id \o ":batched",
      !.createdAt = "merged",
      !.parts = FlatParts(batchedMessages),
      !.batched = TRUE,
      !.batchWindowMs = windowMs,
      !.originalMessageIds = EntryIds(batchedMessages) ]

\* a filter that removes nothing
FilterNone(ms, es) == ms

RECURSIVE Filter(_, _)
\* messages.filter((message) => !batchedPayload.some((entry) => entry.id === message.id))
Filter(ms, es) ==
  IF ms = << >> THEN << >>
  ELSE IF \E i \in 1 .. Len(es) : es[i].id = Head(ms).id
       THEN Filter(Tail(ms), es)
       ELSE << Head(ms) >> \o Filter(Tail(ms), es)

\* a return that merges whatever the flush read, an empty batch included
LeaderResultMerged(ms, payload) ==
  Filter(ms, payload) \o << mergeMessages(payload, LastUserMessage(ms)) >>

\* what the leader returns after its flush
LeaderResult(ms, payload) ==
  IF payload = << >> THEN ms
  ELSE Filter(ms, payload) \o << mergeMessages(payload, LastUserMessage(ms)) >>

\* ------------------------------------------------------------------- state
LeaderPcs == { "bWait", "bSleep", "bRange", "bDelList", "bDelLock", "bCatch" }
BatchingPcs == LeaderPcs \cup { "bPush", "bExpire", "bElect", "bRefresh" }
FinalPcs == { "done", "aborted", "failed", "crashed" }

\* the invocations that won the election for u and have not released the lock
Leaders(u) == { p \in Procs : pc[p] \in LeaderPcs /\ KeyOf(p) = u }
OtherLeaders(p) == Leaders(KeyOf(p)) \ { p }

\* the entry an invocation appends for message m
BatchedMessage(m, createdAt) ==
  [ id |-> m.id, content |-> [ parts |-> m.parts, userId |-> m.userId ],
    createdAt |-> createdAt ]

\* what no call of handleWebhook has produced yet
NoResult == [ type |-> "none", messages |-> << >>, inboundMessages |-> << >> ]

\* a webhook service without a token that has handled no call
NoWebhook ==
  [ token |-> Undef, header |-> Undef, payload |-> [ test |-> FALSE, messages |-> << >> ],
    result |-> NoResult ]

\* a constructor that takes any redisUrl, a missing one included
ConfiguredAlways(url) == TRUE

\* if (!redisUrl) throw: whether the constructor accepts redisUrl
Configured(url) == url /= Undef /\ url /= ""

\* redisUrl = process.env.REDIS_URL: the default applies to an absent option
RedisUrl == IF optUrl /= Undef THEN optUrl ELSE envUrl

\* the state after both processors were constructed with REDIS_URL set
BuiltGates ==
  /\ optUrl = Undef
  /\ envUrl = "redis://env"
  /\ gate = "ready"

InitStore ==
  /\ list = [ u \in UserIds |-> << >> ]
  /\ applied = [ u \in UserIds |-> << >> ]
  /\ listTtl = [ u \in UserIds |-> NoTtl ]
  /\ lock = [ u \in UserIds |-> FALSE ]
  /\ lockTtl = [ u \in UserIds |-> 0 ]

\* a gate as its constructor leaves it: the client made and not connected, no
\* attempt remembered, no invocation in ensureRedis
ConnPlaces == { "out", "await", "returned", "thrown" }

NoConn ==
  [ isOpen |-> FALSE, connectPromise |-> Undef, connects |-> 0,
    begun |-> 0, at |-> [ p \in Procs |-> "out" ] ]

InitProcs ==
  /\ pc = [ p \in Procs |-> "idle" ]
  /\ stamp = [ p \in Procs |-> 0 ]
  /\ sleepLeft = [ p \in Procs |-> 0 ]
  /\ batch = [ p \in Procs |-> << >> ]
  /\ out = [ p \in Procs |-> << >> ]
  /\ reason = [ p \in Procs |-> Undef ]
  /\ owner = [ u \in UserIds |-> NoProc ]
  /\ lapsed = [ u \in UserIds |-> FALSE ]
  /\ pushed = [ p \in Procs |-> FALSE ]
  /\ clock = 0
  /\ crashAge = [ p \in Procs |-> NoCrash ]
  /\ late = [ p \in Procs |-> FALSE ]
  /\ delFailed = [ p \in Procs |-> FALSE ]
  /\ faults = 0
  /\ pending = [ p \in Procs |-> "" ]
  /\ conn = NoConn

\* The invocations of the agent: all but the last carry a message of
\* conversation u1, the last one a message of conversation u2 or of none.
SpecInputs(p) ==
  IF p < NumProcs
    THEN { << UserMsg(p, "u1") >> }
    ELSE { << UserMsg(p, u) >> : u \in { "u2", Undef } }

Init ==
  /\ windowMs = 500
  /\ tickMs = 250
  /\ useResolver = TRUE
  /\ hook = NoWebhook
  /\ BuiltGates
  /\ stop = [ u \in UserIds |-> IF u = "u1" THEN Undef ELSE "1" ]
  /\ input \in [ Procs -> UNION { SpecInputs(p) : p \in Procs } ]
  /\ \A p \in Procs : input[p] \in SpecInputs(p)
  /\ arrival = [ p \in Procs |-> NoArrival ]
  /\ InitStore
  /\ InitProcs

\* ----------------------------------------------------------------- actions
\* The request arrives and RedisStopProcessor runs up to its redis.get: both
\* processors return their input at once when it is empty or holds no user
\* message; otherwise each calls ensureRedis and computes the identifier, and
\* returns its input when there is none.
Start(p) ==
  /\ pc[p] = "idle"
  /\ gate = "ready"
  /\ arrival[p] \in { NoArrival, clock }
  /\ IF input[p] = << >> \/ ~ HasUserMessage(input[p]) \/ Unresolved(KeyOf(p))
       THEN /\ pc' = [ pc EXCEPT ![p] = "done" ]
            /\ out' = [ out EXCEPT ![p] = input[p] ]
            /\ late' = late
       ELSE /\ pc' = [ pc EXCEPT ![p] = "sGet" ]
            /\ out' = out
            /\ late' = [ late EXCEPT ![p] =
                           \E c \in Procs : /\ crashAge[c] > Ttl
                                            /\ KeyOf(c) = KeyOf(p) ]
  /\ UNCHANGED << cfgVars, storeVars, stamp, sleepLeft, batch, reason,
                  owner, lapsed, pushed, clock, pending, conn, crashAge, delFailed, faults >>

\* a gate that deletes the flag once it has stopped a message
StopGetAndClear(p) ==
  /\ pc[p] = "sGet"
  /\ IF defaultIsStopped(stop[KeyOf(p)])
       THEN /\ pc' = [ pc EXCEPT ![p] = "aborted" ]
            /\ reason' = [ reason EXCEPT ![p] = "redis-stop:active" ]
            /\ stop' = [ stop EXCEPT ![KeyOf(p)] = Undef ]
            /\ stamp' = stamp
       ELSE /\ pc' = [ pc EXCEPT ![p] = "bPush" ]
            /\ stamp' = [ stamp EXCEPT ![p] = Now ]
            /\ UNCHANGED << reason, stop >>
  /\ UNCHANGED << windowMs, tickMs, useResolver, optUrl, envUrl, gate, input, arrival,
                  hook, storeVars,
                  sleepLeft, batch, out, owner, lapsed, pushed, clock, pending, conn, histVars >>

\* RedisStopProcessor: redis.get(stopKey) and the decision.  When it returns
\* the messages, RedisBatchingProcessor runs up to its rPush: ensureRedis, the
\* identifier, and Date.now() for the entry.
StopGet(p) ==
  /\ pc[p] = "sGet"
  /\ IF defaultIsStopped(stop[KeyOf(p)])
       THEN /\ pc' = [ pc EXCEPT ![p] = "aborted" ]
            /\ reason' = [ reason EXCEPT ![p] = "redis-stop:active" ]
            /\ stamp' = stamp
       ELSE /\ pc' = [ pc EXCEPT ![p] = "bPush" ]
            /\ stamp' = [ stamp EXCEPT ![p] = Now ]
            /\ reason' = reason
  /\ UNCHANGED << cfgVars, storeVars, sleepLeft, batch, out,
                  owner, lapsed, pushed, clock, pending, conn, histVars >>

\* LPUSH: the new element goes to the head of the list
LPushed(l, raw) == << raw >> \o l

\* RPUSH: the new element goes to the tail of the list
RPushed(l, raw) == Append(l, raw)

\* an append that takes the first user message of the input, not the last
RPushFirstUser(p) ==
  /\ pc[p] = "bPush"
  /\ Len(list[KeyOf(p)]) < MaxEntries
  /\ LET u == KeyOf(p)
         first == CHOOSE i \in 1 .. Len(input[p]) :
                    /\ input[p][i].role = "user"
                    /\ \A j \in 1 .. i - 1 : input[p][j].role /= "user"
         e == BatchedMessage(input[p][first], stamp[p])
     IN /\ list' = [ list EXCEPT ![u] = RPushed(@, Stringify(e)) ]
        /\ applied' = [ applied EXCEPT ![u] = Append(@, e.id) ]
  /\ pc' = [ pc EXCEPT ![p] = "bExpire" ]
  /\ stamp' = [ stamp EXCEPT ![p] = 0 ]
  /\ pushed' = [ pushed EXCEPT ![p] = TRUE ]
  /\ UNCHANGED << cfgVars, listTtl, lock, lockTtl, sleepLeft, batch, out, reason,
                  owner, lapsed, clock, pending, conn, histVars >>

\* redis.rPush(listKey, JSON.stringify({id, content, createdAt}))
RPush(p) ==
  /\ pc[p] = "bPush"
  /\ Len(list[KeyOf(p)]) < MaxEntries
  /\ LET u == KeyOf(p)
         e == BatchedMessage(LastUserMessage(input[p]), stamp[p])
     IN /\ list' = [ list EXCEPT ![u] = RPushed(@, Stringify(e)) ]
        /\ applied' = [ applied EXCEPT ![u] = Append(@, e.id) ]
  /\ pc' = [ pc EXCEPT ![p] = "bExpire" ]
  /\ stamp' = [ stamp EXCEPT ![p] = 0 ]
  /\ pushed' = [ pushed EXCEPT ![p] = TRUE ]
  /\ UNCHANGED << cfgVars, listTtl, lock, lockTtl, sleepLeft, batch, out, reason,
                  owner, lapsed, clock, pending, conn, histVars >>

\* an invocation that goes to the election without the pExpire of the list
SkipExpireList(p) ==
  /\ pc[p] = "bExpire"
  /\ pc' = [ pc EXCEPT ![p] = "bElect" ]
  /\ UNCHANGED << cfgVars, storeVars, stamp, sleepLeft, batch, out, reason,
                  owner, lapsed, pushed, clock, pending, conn, histVars >>

\* redis.pExpire(listKey, windowMs * 3)
PExpireList(p) ==
  /\ pc[p] = "bExpire"
  /\ LET u == KeyOf(p)
     IN listTtl' = IF list[u] /= << >> THEN [ listTtl EXCEPT ![u] = Ttl ] ELSE listTtl
  /\ pc' = [ pc EXCEPT ![p] = "bElect" ]
  /\ UNCHANGED << cfgVars, list, applied, lock, lockTtl, stamp, sleepLeft, batch, out, reason,
                  owner, lapsed, pushed, clock, pending, conn, histVars >>

\* a SET without NX answers 'OK' whether or not the key exists
SetAlways(p, u) == TRUE

\* whether redis.set(lockKey, '1', {PX, NX: true}) answers 'OK'
SetNX(p, u) == ~ lock[u]

\* the election, and the branch on acquiredLock
Elect(p) ==
  /\ pc[p] = "bElect"
  /\ LET u == KeyOf(p)
     IN IF SetNX(p, u)
          THEN /\ lock' = [ lock EXCEPT ![u] = TRUE ]
               /\ lockTtl' = [ lockTtl EXCEPT ![u] = Ttl ]
               /\ owner' = [ owner EXCEPT ![u] = p ]
               /\ pc' = [ pc EXCEPT ![p] = "bWait" ]
          ELSE /\ pc' = [ pc EXCEPT ![p] = "bRefresh" ]
               /\ UNCHANGED << lock, lockTtl, owner >>
  /\ UNCHANGED << cfgVars, list, applied, listTtl, stamp, sleepLeft, batch, out, reason,
                  lapsed, pushed, clock, pending, conn, histVars >>

\* a lost election that calls abort() with no reason
RefreshAbortNoReason(p) ==
  /\ pc[p] = "bRefresh"
  /\ LET u == KeyOf(p)
     IN lockTtl' = IF lock[u] THEN [ lockTtl EXCEPT ![u] = Ttl ] ELSE lockTtl
  /\ pc' = [ pc EXCEPT ![p] = "aborted" ]
  /\ UNCHANGED << cfgVars, list, applied, listTtl, lock, stamp, sleepLeft, batch, out,
                  reason, owner, lapsed, pushed, clock, pending, conn, histVars >>

\* a lost election that aborts without the pExpire
AbortNoRefresh(p) ==
  /\ pc[p] = "bRefresh"
  /\ pc' = [ pc EXCEPT ![p] = "aborted" ]
  /\ reason' = [ reason EXCEPT ![p] = "redis-batching:pending" ]
  /\ UNCHANGED << cfgVars, storeVars, stamp, sleepLeft, batch, out,
                  owner, lapsed, pushed, clock, pending, conn, histVars >>

\* a lost election that deletes the lock before it aborts
AbortReleasing(p) ==
  /\ pc[p] = "bRefresh"
  /\ LET u == KeyOf(p)
     IN /\ lock' = [ lock EXCEPT ![u] = FALSE ]
        /\ lockTtl' = [ lockTtl EXCEPT ![u] = 0 ]
        /\ owner' = [ owner EXCEPT ![u] = NoProc ]
  /\ pc' = [ pc EXCEPT ![p] = "aborted" ]
  /\ reason' = [ reason EXCEPT ![p] = "redis-batching:pending" ]
  /\ UNCHANGED << cfgVars, list, applied, listTtl, stamp, sleepLeft, batch, out,
                  lapsed, pushed, clock, pending, conn, histVars >>

\* lost election: redis.pExpire(lockKey, windowMs * 3), then abort
RefreshAbort(p) ==
  /\ pc[p] = "bRefresh"
  /\ LET u == KeyOf(p)
     IN lockTtl' = IF lock[u] THEN [ lockTtl EXCEPT ![u] = Ttl ] ELSE lockTtl
  /\ pc' = [ pc EXCEPT ![p] = "aborted" ]
  /\ reason' = [ reason EXCEPT ![p] = "redis-batching:pending" ]
  /\ UNCHANGED << cfgVars, list, applied, listTtl, lock, stamp, sleepLeft, batch, out,
                  owner, lapsed, pushed, clock, pending, conn, histVars >>

\* windowMs - (Date.now() - lastEntry.createdAt)
Remaining(lastRaw) == windowMs - (Now - Parse(lastRaw).createdAt)

\* redis.lIndex(listKey, 0): the head instead of the tail
LIndexFirst(u) == IF list[u] = << >> THEN Undef ELSE list[u][1]

\* redis.lIndex(listKey, -1)
LIndex(u) == IF list[u] = << >> THEN Undef ELSE list[u][Len(list[u])]

\* a wait that sleeps windowMs whatever remains of the window
QuietCheckSleepWindow(p) ==
  /\ pc[p] = "bWait"
  /\ LET lastRaw == LIndex(KeyOf(p))
     IN IF lastRaw = Undef \/ Remaining(lastRaw) <= 0
          THEN /\ pc' = [ pc EXCEPT ![p] = "bRange" ]
               /\ sleepLeft' = sleepLeft
          ELSE /\ pc' = [ pc EXCEPT ![p] = "bSleep" ]
               /\ sleepLeft' = [ sleepLeft EXCEPT ![p] = windowMs ]
  /\ UNCHANGED << cfgVars, storeVars, stamp, batch, out, reason,
                  owner, lapsed, pushed, clock, pending, conn, histVars >>

\* one round of awaitQuietWindow: the read of the tail and what follows
QuietCheck(p) ==
  /\ pc[p] = "bWait"
  /\ LET lastRaw == LIndex(KeyOf(p))
     IN IF lastRaw = Undef \/ Remaining(lastRaw) <= 0
          THEN /\ pc' = [ pc EXCEPT ![p] = "bRange" ]
               /\ sleepLeft' = sleepLeft
          ELSE /\ pc' = [ pc EXCEPT ![p] = "bSleep" ]
               /\ sleepLeft' = [ sleepLeft EXCEPT ![p] = Min(Remaining(lastRaw), PollMs) ]
  /\ UNCHANGED << cfgVars, storeVars, stamp, batch, out, reason,
                  owner, lapsed, pushed, clock, pending, conn, histVars >>

\* a timer that is armed anew when it fires, so that the sleep never ends
WakeRearmed(p) ==
  /\ pc[p] = "bSleep"
  /\ sleepLeft[p] <= 0
  /\ sleepLeft' = [ sleepLeft EXCEPT ![p] = PollMs ]
  /\ UNCHANGED << cfgVars, storeVars, pc, stamp, batch, out, reason,
                  owner, lapsed, pushed, clock, pending, conn, histVars >>

\* the timer of sleep() fires
Wake(p) ==
  /\ pc[p] = "bSleep"
  /\ sleepLeft[p] <= 0
  /\ pc' = [ pc EXCEPT ![p] = "bWait" ]
  /\ UNCHANGED << cfgVars, storeVars, stamp, sleepLeft, batch, out, reason,
                  owner, lapsed, pushed, clock, pending, conn, histVars >>

\* flushBatch: redis.lRange(listKey, 0, -1)
LRange(p) ==
  /\ pc[p] = "bRange"
  /\ LET u == KeyOf(p)
     IN batch' = [ batch EXCEPT ![p] = [ i \in 1 .. Len(list[u]) |-> Parse(list[u][i]) ] ]
  /\ pc' = [ pc EXCEPT ![p] = "bDelList" ]
  /\ UNCHANGED << cfgVars, storeVars, stamp, sleepLeft, out, reason,
                  owner, lapsed, pushed, clock, pending, conn, histVars >>

\* flushBatch: redis.del(listKey)
DelList(p) ==
  /\ pc[p] = "bDelList"
  /\ LET u == KeyOf(p)
     IN /\ list' = [ list EXCEPT ![u] = << >> ]
        /\ applied' = [ applied EXCEPT ![u] = << >> ]
        /\ listTtl' = [ listTtl EXCEPT ![u] = NoTtl ]
  /\ pc' = [ pc EXCEPT ![p] = "bDelLock" ]
  /\ UNCHANGED << cfgVars, lock, lockTtl, stamp, sleepLeft, batch, out, reason,
                  owner, lapsed, pushed, clock, pending, conn, histVars >>

\* a leader that merges and returns without the redis.del(lockKey)
ReturnNoRelease(p) ==
  /\ pc[p] = "bDelLock"
  /\ out' = [ out EXCEPT ![p] = LeaderResult(input[p], batch[p]) ]
  /\ pc' = [ pc EXCEPT ![p] = "done" ]
  /\ lapsed' = [ lapsed EXCEPT ![KeyOf(p)] = @ /\ OtherLeaders(p) /= { } ]
  /\ UNCHANGED << cfgVars, storeVars, owner, stamp, sleepLeft, batch, reason,
                  pushed, clock, pending, conn, histVars >>

\* redis.del(lockKey), then the merge and the return
DelLock(p) ==
  /\ pc[p] = "bDelLock"
  /\ LET u == KeyOf(p)
     IN /\ lock' = [ lock EXCEPT ![u] = FALSE ]
        /\ lockTtl' = [ lockTtl EXCEPT ![u] = 0 ]
        /\ owner' = [ owner EXCEPT ![u] = NoProc ]
  /\ out' = [ out EXCEPT ![p] = LeaderResult(input[p], batch[p]) ]
  /\ pc' = [ pc EXCEPT ![p] = "done" ]
  /\ lapsed' = [ lapsed EXCEPT ![KeyOf(p)] = @ /\ OtherLeaders(p) /= { } ]
  /\ UNCHANGED << cfgVars, list, applied, listTtl, stamp, sleepLeft, batch, reason,
                  pushed, clock, pending, conn, histVars >>

\* ---------------------------------------------------------------------- time
AgeCap == windowMs + tickMs
Aged(t) == Max(t - tickMs, 0 - AgeCap)
AgedRaw(raw) == Stringify([ Parse(raw) EXCEPT !.createdAt = Aged(@) ])

ListExpires(u) == listTtl[u] /= NoTtl /\ listTtl[u] - tickMs <= 0
LockExpires(u) == lock[u] /\ lockTtl[u] - tickMs <= 0

\* tickMs pass: every relative time moves, and Redis drops the keys whose time
\* to live ran out
Elapse ==
  /\ list' = [ u \in UserIds |->
                 IF ListExpires(u) THEN << >>
                 ELSE [ i \in 1 .. Len(list[u]) |-> AgedRaw(list[u][i]) ] ]
  /\ applied' = [ u \in UserIds |-> IF ListExpires(u) THEN << >> ELSE applied[u] ]
  /\ listTtl' = [ u \in UserIds |->
                    IF listTtl[u] = NoTtl \/ ListExpires(u) THEN NoTtl
                    ELSE listTtl[u] - tickMs ]
  /\ lock' = [ u \in UserIds |-> lock[u] /\ ~ LockExpires(u) ]
  /\ lockTtl' = [ u \in UserIds |->
                    IF ~ lock[u] \/ LockExpires(u) THEN 0 ELSE lockTtl[u] - tickMs ]
  /\ owner' = [ u \in UserIds |-> IF LockExpires(u) THEN NoProc ELSE owner[u] ]
  /\ lapsed' = [ u \in UserIds |->
                   lapsed[u] \/ ( /\ LockExpires(u)
                                  /\ owner[u] /= NoProc
                                  /\ pc[owner[u]] \in LeaderPcs ) ]
  /\ stamp' = [ p \in Procs |-> IF pc[p] = "bPush" THEN Aged(stamp[p]) ELSE stamp[p] ]
  /\ sleepLeft' = [ p \in Procs |-> Max(sleepLeft[p] - tickMs, 0) ]
  /\ crashAge' = [ p \in Procs |->
                     IF crashAge[p] = NoCrash THEN NoCrash
                     ELSE Min(crashAge[p] + tickMs, Ttl + tickMs) ]
  /\ UNCHANGED << cfgVars, pc, batch, out, reason, pushed, late, delFailed, faults >>

\* time passes at any moment: store round trips and timers take any time
Tick ==
  /\ Elapse
  /\ UNCHANGED << clock, pending, conn >>

\* the scenario's clock: time passes only when no invocation has a step to
\* take (store round trips take no time, timers fire on time)
Busy(p) ==
  \/ pc[p] \notin FinalPcs \cup { "idle", "bSleep" }
  \/ pc[p] = "bSleep" /\ sleepLeft[p] <= 0
  \/ pc[p] = "idle" /\ arrival[p] = clock

UrgentTick ==
  /\ \A p \in Procs : ~ Busy(p)
  /\ clock < MaxClock * tickMs
  /\ Elapse
  /\ clock' = clock + tickMs
  /\ UNCHANGED << pending, conn >>

\* p has a store call in flight, or its timer is due
Due(p) ==
  \/ pc[p] \notin FinalPcs \cup { "idle", "bSleep" }
  \/ pc[p] = "bSleep" /\ sleepLeft[p] <= 0

\* the paced clock: every store round trip and every timer overshoot takes at
\* most tickMs, so time does not pass a second time over an invocation that
\* still stands where it stood, due, when time passed before
PacedTick ==
  /\ \A p \in Procs : ~ ( Due(p) /\ pending[p] = pc[p] )
  /\ Elapse
  /\ pending' = [ p \in Procs |-> IF Due(p) THEN pc[p] ELSE "" ]
  /\ UNCHANGED << clock, conn >>

\* --------------------------------------------------------------- environment
\* the process of invocation p vanishes
Crash(p) ==
  /\ pc[p] \notin FinalPcs \cup { "idle" }
  /\ faults < MaxCrashes
  /\ faults' = faults + 1
  /\ pc' = [ pc EXCEPT ![p] = "crashed" ]
  /\ crashAge' = [ crashAge EXCEPT ![p] =
                     IF pc[p] \in { "bWait", "bSleep" } THEN 0 ELSE NoCrash ]
  /\ UNCHANGED << cfgVars, storeVars, stamp, sleepLeft, batch, out, reason,
                  owner, lapsed, pushed, clock, pending, conn, late, delFailed >>

TryPcs == { "bWait", "bRange", "bDelList", "bDelLock" }
StoreOpPcs ==
  TryPcs \cup { "idle", "sGet", "bPush", "bExpire", "bElect", "bRefresh", "bCatch" }

\* a stop gate that swallows the error of its connect or get and returns the
\* messages; every other call fails as it does
FailOpen(p) ==
  /\ pc[p] \in StoreOpPcs
  /\ pc[p] = "idle" =>
       /\ arrival[p] \in { NoArrival, clock }
       /\ input[p] /= << >>
       /\ HasUserMessage(input[p])
  /\ faults < MaxFailures
  /\ faults' = faults + 1
  /\ IF pc[p] \in { "idle", "sGet" }
       THEN /\ pc' = [ pc EXCEPT ![p] = "done" ]
            /\ out' = [ out EXCEPT ![p] = input[p] ]
            /\ UNCHANGED << reason, delFailed >>
       ELSE IF pc[p] \in TryPcs
       THEN /\ pc' = [ pc EXCEPT ![p] = "bCatch" ]
            /\ UNCHANGED << reason, delFailed, out >>
       ELSE /\ pc' = [ pc EXCEPT ![p] = "failed" ]
            /\ reason' = [ reason EXCEPT ![p] = "error" ]
            /\ delFailed' = [ delFailed EXCEPT ![p] = pc[p] = "bCatch" ]
            /\ out' = out
  /\ UNCHANGED << cfgVars, storeVars, stamp, sleepLeft, batch,
                  owner, lapsed, pushed, clock, pending, conn, crashAge, late >>

\* a failure inside the try block that also drops the list
FailClearing(p) ==
  /\ pc[p] \in StoreOpPcs
  /\ pc[p] = "idle" =>
       /\ arrival[p] \in { NoArrival, clock }
       /\ input[p] /= << >>
       /\ HasUserMessage(input[p])
  /\ faults < MaxFailures
  /\ faults' = faults + 1
  /\ IF pc[p] \in TryPcs
       THEN /\ pc' = [ pc EXCEPT ![p] = "bCatch" ]
            /\ list' = [ list EXCEPT ![KeyOf(p)] = << >> ]
            /\ applied' = [ applied EXCEPT ![KeyOf(p)] = << >> ]
            /\ listTtl' = [ listTtl EXCEPT ![KeyOf(p)] = NoTtl ]
            /\ UNCHANGED << reason, delFailed >>
       ELSE /\ pc' = [ pc EXCEPT ![p] = "failed" ]
            /\ reason' = [ reason EXCEPT ![p] = "error" ]
            /\ delFailed' = [ delFailed EXCEPT ![p] = pc[p] = "bCatch" ]
            /\ UNCHANGED << list, applied, listTtl >>
  /\ UNCHANGED << cfgVars, lock, lockTtl, stamp, sleepLeft, batch, out,
                  owner, lapsed, pushed, clock, pending, conn, crashAge, late >>

\* an ensureRedis that runs before the checks of the input: any invocation
\* can fail on it
FailBeforeChecks(p) ==
  /\ pc[p] \in StoreOpPcs
  /\ pc[p] = "idle" => arrival[p] \in { NoArrival, clock }
  /\ faults < MaxFailures
  /\ faults' = faults + 1
  /\ IF pc[p] \in TryPcs
       THEN /\ pc' = [ pc EXCEPT ![p] = "bCatch" ]
            /\ UNCHANGED << reason, delFailed >>
       ELSE /\ pc' = [ pc EXCEPT ![p] = "failed" ]
            /\ reason' = [ reason EXCEPT ![p] = "error" ]
            /\ delFailed' = [ delFailed EXCEPT ![p] = pc[p] = "bCatch" ]
  /\ UNCHANGED << cfgVars, storeVars, stamp, sleepLeft, batch, out,
                  owner, lapsed, pushed, clock, pending, conn, crashAge, late >>

\* the store call p is about to make (ensureRedis included) rejects, without
\* effect on the store: inside the try block the catch block is entered, anywhere
\* else the error leaves processInput
Fail(p) ==
  /\ pc[p] \in StoreOpPcs
  /\ pc[p] = "idle" =>
       /\ arrival[p] \in { NoArrival, clock }
       /\ input[p] /= << >>
       /\ HasUserMessage(input[p])
  /\ faults < MaxFailures
  /\ faults' = faults + 1
  /\ IF pc[p] \in TryPcs
       THEN /\ pc' = [ pc EXCEPT ![p] = "bCatch" ]
            /\ UNCHANGED << reason, delFailed >>
       ELSE /\ pc' = [ pc EXCEPT ![p] = "failed" ]
            /\ reason' = [ reason EXCEPT ![p] = "error" ]
            /\ delFailed' = [ delFailed EXCEPT ![p] = pc[p] = "bCatch" ]
  /\ UNCHANGED << cfgVars, storeVars, stamp, sleepLeft, batch, out,
                  owner, lapsed, pushed, clock, pending, conn, crashAge, late >>

\* a catch block that rethrows without the del
CatchRethrow(p) ==
  /\ pc[p] = "bCatch"
  /\ pc' = [ pc EXCEPT ![p] = "failed" ]
  /\ reason' = [ reason EXCEPT ![p] = "error" ]
  /\ UNCHANGED << cfgVars, storeVars, owner, stamp, sleepLeft, batch, out,
                  lapsed, pushed, clock, pending, conn, histVars >>

\* catch (error) { await this.redis.del(lockKey); throw error; }
Catch(p) ==
  /\ pc[p] = "bCatch"
  /\ LET u == KeyOf(p)
     IN /\ lock' = [ lock EXCEPT ![u] = FALSE ]
        /\ lockTtl' = [ lockTtl EXCEPT ![u] = 0 ]
        /\ owner' = [ owner EXCEPT ![u] = NoProc ]
  /\ pc' = [ pc EXCEPT ![p] = "failed" ]
  /\ reason' = [ reason EXCEPT ![p] = "error" ]
  /\ lapsed' = [ lapsed EXCEPT ![KeyOf(p)] = @ /\ OtherLeaders(p) /= { } ]
  /\ UNCHANGED << cfgVars, list, applied, listTtl, stamp, sleepLeft, batch, out,
                  pushed, clock, pending, conn, histVars >>

\* a later request: the slot of a finished invocation takes a new invocation
Recycle(p) ==
  /\ pc[p] \in { "done", "aborted" }
  /\ pc' = [ pc EXCEPT ![p] = "idle" ]
  /\ batch' = [ batch EXCEPT ![p] = << >> ]
  /\ out' = [ out EXCEPT ![p] = << >> ]
  /\ reason' = [ reason EXCEPT ![p] = Undef ]
  /\ pushed' = [ pushed EXCEPT ![p] = FALSE ]
  /\ late' = [ late EXCEPT ![p] = FALSE ]
  /\ UNCHANGED << cfgVars, storeVars, stamp, sleepLeft, owner, lapsed, clock, pending, conn,
                  crashAge, delFailed, faults >>

\* ------------------------------------------------------------ specifications
\* the steps an invocation takes by itself once it has arrived
Run(p) ==
  \/ StopGet(p)
  \/ RPush(p)
  \/ PExpireList(p)
  \/ Elect(p)
  \/ RefreshAbort(p)
  \/ QuietCheck(p)
  \/ Wake(p)
  \/ LRange(p)
  \/ DelList(p)
  \/ DelLock(p)

Step(p) == Start(p) \/ Run(p)

\* no process vanishes, no store call fails
Next ==
  \/ \E p \in Procs : Step(p)
  \/ Tick

Spec == Init /\ [][Next]_vars

\* processes may vanish
NextCrash ==
  \/ Next
  \/ \E p \in Procs : Crash(p)

SpecCrash == Init /\ [][NextCrash]_vars

\* store calls may fail
NextFail ==
  \/ Next
  \/ \E p \in Procs : Fail(p) \/ Catch(p)

SpecFail == Init /\ [][NextFail]_vars

\* the scenario: windowMs = 1000, messages A, B, C of conversation u1 arrive at
\* 0, 400 and 900 ms; the stop flag of u1 is absent or holds a value that does
\* not stop; invocations beyond the third are called with no message
InitScenario ==
  /\ windowMs = 1000
  /\ tickMs = 50
  /\ useResolver = TRUE
  /\ hook = NoWebhook
  /\ BuiltGates
  /\ stop \in [ UserIds -> { Undef, "0", "false" } ]
  /\ stop["u2"] = Undef
  /\ input = [ p \in Procs |-> IF p <= 3 THEN << UserMsg(p, "u1") >> ELSE << >> ]
  /\ arrival = [ p \in Procs |->
                   IF p = 1 THEN 0 ELSE IF p = 2 THEN 400 ELSE IF p = 3 THEN 900
                   ELSE NoArrival ]
  /\ InitStore
  /\ InitProcs

NextScenario ==
  \/ \E p \in Procs : Step(p)
  \/ UrgentTick

SpecScenario == InitScenario /\ [][NextScenario]_vars

\* every store round trip and every timer overshoot takes at most tickMs,
\* which is less than windowMs
NextPaced ==
  \/ \E p \in Procs : Step(p)
  \/ PacedTick

SpecPaced == Init /\ [][NextPaced]_vars

\* three invocations of one conversation, each with its own message
InitThree ==
  /\ windowMs = 250
  /\ tickMs = 250
  /\ useResolver = TRUE
  /\ hook = NoWebhook
  /\ BuiltGates
  /\ stop = [ u \in UserIds |-> Undef ]
  /\ input = [ p \in Procs |-> << UserMsg(p, "u1") >> ]
  /\ arrival = [ p \in Procs |-> NoArrival ]
  /\ InitStore
  /\ InitProcs

\* with store round trips that take no time and timers that fire on time
SpecThree == InitThree /\ [][NextScenario]_vars

\* Store round trips take no time and timers fire on time, and the invocations
\* arrive whenever they like: the clock moves in steps of PollMs / 2, so that
\* sleeps of min(remaining, PollMs) of both kinds happen
InitQuiet ==
  /\ windowMs = 500
  /\ tickMs = 125
  /\ useResolver = TRUE
  /\ hook = NoWebhook
  /\ BuiltGates
  /\ stop = [ u \in UserIds |-> IF u = "u1" THEN Undef ELSE "1" ]
  /\ input \in [ Procs -> UNION { SpecInputs(p) : p \in Procs } ]
  /\ \A p \in Procs : input[p] \in SpecInputs(p)
  /\ arrival = [ p \in Procs |-> NoArrival ]
  /\ InitStore
  /\ InitProcs

SpecQuiet == InitQuiet /\ [][NextScenario]_vars

\* Inputs of several messages: invocation 1 is called with up to MaxInput
\* messages (an assistant message, the user messages of invocations 1 and 2)
\* of which the last user message is its own; invocation 2 with its message;
\* the others with no message.
AssistantMsg == Message("a0", "assistant", Undef, Undef, Undef, << "a0" >>)

MergeInputs ==
  { ms \in UNION { [ 1 .. n -> { AssistantMsg, UserMsg(1, "u1"), UserMsg(2, "u1") } ] :
                     n \in 1 .. MaxInput } :
      HasUserMessage(ms) /\ LastUserMessage(ms).id = MsgId(1) }

InitMerge ==
  /\ windowMs = 500
  /\ tickMs = 250
  /\ useResolver = TRUE
  /\ hook = NoWebhook
  /\ BuiltGates
  /\ stop = [ u \in UserIds |-> Undef ]
  /\ input \in [ Procs -> MergeInputs \cup { << UserMsg(2, "u1") >>, << >> } ]
  /\ input[1] \in MergeInputs
  /\ input[2] = << UserMsg(2, "u1") >>
  /\ \A p \in Procs : p > 2 => input[p] = << >>
  /\ arrival = [ p \in Procs |-> NoArrival ]
  /\ InitStore
  /\ InitProcs

SpecMerge == InitMerge /\ [][Next]_vars

\* The values of the stop flag: absent, empty, the values that do not stop in
\* several casings, and values that stop.
StopValues ==
  { Undef, "", "0", "false", "False", "FALSE", "fAlSe", "1", "00", "true", "TRUE", "Stop" }

\* invocations 1 and 2 carry a message of u1, whose flag has any of the values;
\* the others are called with no message
InitStop ==
  /\ windowMs = 500
  /\ tickMs = 250
  /\ useResolver = TRUE
  /\ hook = NoWebhook
  /\ BuiltGates
  /\ stop \in [ UserIds -> StopValues ]
  /\ stop["u2"] = Undef
  /\ input = [ p \in Procs |-> IF p <= 2 THEN << UserMsg(p, "u1") >> ELSE << >> ]
  /\ arrival = [ p \in Procs |-> NoArrival ]
  /\ InitStore
  /\ InitProcs

SpecStop == InitStop /\ [][Next]_vars

\* The identifiers of a message: thread, resource and metadata user id are each
\* absent, empty or the name of a conversation, and the processors are built
\* with or without the resolver.  Invocation 1 carries such a message,
\* invocation 2 a message of u1, the others none.
IdValues == { Undef, "", "u1", "u2" }

ResolveInputs ==
  { << Message(MsgId(1), "user", t, r, u, << MsgId(1) >>) >> :
      t \in IdValues, r \in IdValues \ { "u2" }, u \in { Undef, "u1" } }

InitResolve ==
  /\ windowMs = 250
  /\ tickMs = 250
  /\ useResolver \in BOOLEAN
  /\ hook = NoWebhook
  /\ BuiltGates
  /\ stop = [ u \in UserIds |-> Undef ]
  /\ input \in [ Procs -> ResolveInputs \cup { << UserMsg(2, "u1") >>, << >> } ]
  /\ input[1] \in ResolveInputs
  /\ input[2] = << UserMsg(2, "u1") >>
  /\ \A p \in Procs : p > 2 => input[p] = << >>
  /\ arrival = [ p \in Procs |-> NoArrival ]
  /\ InitStore
  /\ InitProcs

SpecResolve == InitResolve /\ [][Next]_vars

\* Two conversations at once: all invocations but the last carry a message of
\* u1, the last one a message of u2, and no conversation is stopped.
InitTwoKeys ==
  /\ windowMs = 250
  /\ tickMs = 250
  /\ useResolver = TRUE
  /\ hook = NoWebhook
  /\ BuiltGates
  /\ stop = [ u \in UserIds |-> Undef ]
  /\ input = [ p \in Procs |->
                 IF p < NumProcs THEN << UserMsg(p, "u1") >> ELSE << UserMsg(p, "u2") >> ]
  /\ arrival = [ p \in Procs |-> NoArrival ]
  /\ InitStore
  /\ InitProcs

SpecTwoKeys == InitTwoKeys /\ [][Next]_vars

\* Construction: the options and the environment hold a connection string, an
\* empty one or none; the constructors of the two processors run, and only
\* then can a request be processed.
UrlValues == { Undef, "", "redis://host" }

InitConstruct ==
  /\ windowMs = 250
  /\ tickMs = 250
  /\ useResolver = TRUE
  /\ hook = NoWebhook
  /\ optUrl \in UrlValues
  /\ envUrl \in UrlValues
  /\ gate = "new"
  /\ stop = [ u \in UserIds |-> Undef ]
  /\ input = [ p \in Procs |-> IF p <= 2 THEN << UserMsg(p, "u1") >> ELSE << >> ]
  /\ arrival = [ p \in Procs |-> NoArrival ]
  /\ InitStore
  /\ InitProcs

\* new RedisStopProcessor(...), new RedisBatchingProcessor(...)
Construct ==
  /\ gate = "new"
  /\ gate' = IF Configured(RedisUrl) THEN "ready" ELSE "configError"
  /\ UNCHANGED << windowMs, tickMs, useResolver, optUrl, envUrl, stop, input, arrival,
                  hook, storeVars, pc, stamp, sleepLeft, batch, out, reason,
                  owner, lapsed, pushed, clock, pending, conn, histVars >>

NextConstruct ==
  \/ Construct
  \/ Next

SpecConstruct == InitConstruct /\ [][NextConstruct]_vars

\* The webhook service.  A Wazzup message as far as handleWebhook reads it.
WazzupMessage(messageId, status) == [ messageId |-> messageId, status |-> status ]

\* normalizeMessages: nothing for what is no array, else the messages that
\* have a messageId
normalizeMessages(messages) ==
  IF messages = Undef THEN << >>
  ELSE SelectSeq(messages, LAMBDA m : m.messageId /= "")

\* the header the service expects
ExpectedHeader(token) == "Bearer " \o token

\* assertAuthorization: whether it returns instead of throwing
Authorized(token, header) ==
  \/ token = Undef \/ token = ""
  \/ header = Undef \/ header = ""
  \/ header = ExpectedHeader(token)

\* what handleWebhook does with a payload under an authorization header
WebhookResult(token, header, payload) ==
  IF ~ Authorized(token, header)
    THEN [ type |-> "UnauthorizedWebhookError", messages |-> << >>,
           inboundMessages |-> << >> ]
  ELSE IF payload.test
    THEN [ type |-> "test", messages |-> << >>, inboundMessages |-> << >> ]
  ELSE LET ms == normalizeMessages(payload.messages)
       IN [ type |-> "webhook", messages |-> ms,
            inboundMessages |-> SelectSeq(ms, LAMBDA m : m.status = "inbound") ]

Tokens == { Undef, "", "t1" }
Headers == { Undef, "", "Bearer t1", "Bearer t2", "t1", "bearer t1" }
Payloads ==
  { [ test |-> t, messages |-> ms ] :
      t \in BOOLEAN,
      ms \in { << >>,
               << WazzupMessage("w1", "inbound") >>,
               << WazzupMessage("w1", "outbound") >>,
               << WazzupMessage("", "inbound"), WazzupMessage("w2", "inbound") >>,
               << WazzupMessage("w1", "inbound"), WazzupMessage("w2", "outbound") >> } }

InitWebhook ==
  /\ windowMs = 250
  /\ tickMs = 250
  /\ useResolver = TRUE
  /\ BuiltGates
  /\ hook \in { [ NoWebhook EXCEPT !.token = t ] : t \in Tokens }
  /\ stop = [ u \in UserIds |-> Undef ]
  /\ input = [ p \in Procs |-> << >> ]
  /\ arrival = [ p \in Procs |-> NoArrival ]
  /\ InitStore
  /\ InitProcs

\* one call of handleWebhook(payload, { authorization: header })
HandleWebhook(header, payload) ==
  /\ hook' = [ hook EXCEPT !.header = header,
                           !.payload = payload,
                           !.result = WebhookResult(hook.token, header, payload) ]
  /\ UNCHANGED << windowMs, tickMs, useResolver, optUrl, envUrl, gate, stop, input,
                  arrival, storeVars, pc, stamp, sleepLeft, batch, out, reason,
                  owner, lapsed, pushed, clock, pending, conn, histVars >>

NextWebhook == \E header \in Headers, payload \in Payloads : HandleWebhook(header, payload)

SpecWebhook == InitWebhook /\ [][NextWebhook]_vars

\* A message delivered twice: invocations 1 and 2 are called with the same
\* user message of conversation u1, the others with no message
InitRetry ==
  /\ windowMs = 500
  /\ tickMs = 250
  /\ useResolver = TRUE
  /\ hook = NoWebhook
  /\ BuiltGates
  /\ stop = [ u \in UserIds |-> Undef ]
  /\ input = [ p \in Procs |-> IF p <= 2 THEN << UserMsg(1, "u1") >> ELSE << >> ]
  /\ arrival = [ p \in Procs |-> NoArrival ]
  /\ InitStore
  /\ InitProcs

SpecRetry == InitRetry /\ [][Next]_vars

\* Inputs with nothing to gate: invocation 2 is called with no message or
\* with assistant messages only, the others with their message of conversation
\* u1; store calls may fail
NoOpInputs == { << >>, << AssistantMsg >>, << AssistantMsg, AssistantMsg >> }

InitNoOp ==
  /\ windowMs = 500
  /\ tickMs = 250
  /\ useResolver = TRUE
  /\ hook = NoWebhook
  /\ BuiltGates
  /\ stop = [ u \in UserIds |-> Undef ]
  /\ input \in [ Procs -> NoOpInputs \cup { << UserMsg(p, "u1") >> : p \in Procs } ]
  /\ \A p \in Procs :
       IF p = 2 THEN input[p] \in NoOpInputs ELSE input[p] = << UserMsg(p, "u1") >>
  /\ arrival = [ p \in Procs |-> NoArrival ]
  /\ InitStore
  /\ InitProcs

SpecNoOp == InitNoOp /\ [][NextFail]_vars

\* Requests keep coming after a leader vanished.  The first state is the one
\* SpecCrash reaches when invocation 1 has appended its entry, won the election
\* of u1 and vanished in its quiet-window wait (LeaderVanished below); finished
\* invocations make room for later ones.  Time passes and every invocation
\* that has arrived and has not vanished keeps taking its steps (the event
\* loop runs it, Redis answers), while nothing obliges a request to arrive.
LeaderVanished ==
  /\ pc[1] = "crashed"
  /\ crashAge[1] = 0
  /\ pushed[1]
  /\ \A p \in Procs \ { 1 } : pc[p] = "idle"
  /\ list["u1"] = << Stringify(BatchedMessage(UserMsg(1, "u1"), Now)) >>
  /\ listTtl["u1"] = Ttl
  /\ lock["u1"] /\ lockTtl["u1"] = Ttl /\ owner["u1"] = 1
  /\ list["u2"] = << >> /\ ~ lock["u2"]

InitLive ==
  /\ windowMs = 250
  /\ tickMs = 250
  /\ useResolver = TRUE
  /\ hook = NoWebhook
  /\ BuiltGates
  /\ stop = [ u \in UserIds |-> IF u = "u1" THEN Undef ELSE "1" ]
  /\ input \in [ Procs -> UNION { SpecInputs(p) : p \in Procs } ]
  /\ \A p \in Procs : input[p] \in SpecInputs(p)
  /\ arrival = [ p \in Procs |-> NoArrival ]
  /\ list = [ u \in UserIds |->
                IF u = "u1" THEN << Stringify(BatchedMessage(UserMsg(1, "u1"), Now)) >>
                ELSE << >> ]
  /\ applied = [ u \in UserIds |-> IF u = "u1" THEN << MsgId(1) >> ELSE << >> ]
  /\ listTtl = [ u \in UserIds |-> IF u = "u1" THEN Ttl ELSE NoTtl ]
  /\ lock = [ u \in UserIds |-> u = "u1" ]
  /\ lockTtl = [ u \in UserIds |-> IF u = "u1" THEN Ttl ELSE 0 ]
  /\ pc = [ p \in Procs |-> IF p = 1 THEN "crashed" ELSE "idle" ]
  /\ stamp = [ p \in Procs |-> 0 ]
  /\ sleepLeft = [ p \in Procs |-> 0 ]
  /\ batch = [ p \in Procs |-> << >> ]
  /\ out = [ p \in Procs |-> << >> ]
  /\ reason = [ p \in Procs |-> Undef ]
  /\ owner = [ u \in UserIds |-> IF u = "u1" THEN 1 ELSE NoProc ]
  /\ lapsed = [ u \in UserIds |-> FALSE ]
  /\ pushed = [ p \in Procs |-> p = 1 ]
  /\ clock = 0
  /\ crashAge = [ p \in Procs |-> IF p = 1 THEN 0 ELSE NoCrash ]
  /\ late = [ p \in Procs |-> FALSE ]
  /\ delFailed = [ p \in Procs |-> FALSE ]
  /\ faults = 1
  /\ pending = [ p \in Procs |-> "" ]
  /\ conn = NoConn

NextLive ==
  \/ Next
  \/ \E p \in Procs : Recycle(p)

Fairness ==
  /\ WF_vars(Tick)
  /\ \A p \in Procs : WF_vars(Run(p))

SpecLive == InitLive /\ [][NextLive]_vars /\ Fairness

\* Two requests of conversation u1 and no more, so the appends stop; store
\* calls complete, time passes and every invocation keeps taking its steps
InitFair ==
  /\ windowMs = 250
  /\ tickMs = 250
  /\ useResolver = TRUE
  /\ hook = NoWebhook
  /\ BuiltGates
  /\ stop = [ u \in UserIds |-> Undef ]
  /\ input = [ p \in Procs |-> IF p <= 2 THEN << UserMsg(p, "u1") >> ELSE << >> ]
  /\ arrival = [ p \in Procs |-> NoArrival ]
  /\ InitStore
  /\ InitProcs

SpecFair == InitFair /\ [][Next]_vars /\ Fairness

\* ---------------------------------------------------------------- connection
\* ensureRedis beginning a connect whenever the client is not open, whatever
\* it remembers
ensureRedisUnshared(p) ==
  /\ conn.at[p] = "out"
  /\ IF conn.isOpen
       THEN conn' = [ conn EXCEPT !.at[p] = "returned" ]
       ELSE /\ conn.begun < MaxAttempts
            /\ \E early \in BOOLEAN :
                 conn' = [ conn EXCEPT !.connectPromise = "pending",
                                       !.connects = @ + 1,
                                       !.begun = @ + 1,
                                       !.isOpen = early,
                                       !.at[p] = "await" ]
  /\ UNCHANGED gateVars

\* ensureRedis up to its await: an open client returns at once; with no
\* attempt remembered the invocation begins a connect and remembers its
\* promise; then it awaits the remembered promise.  What isOpen answers while
\* the connect is in flight is the client library's choice
ensureRedis(p) ==
  /\ conn.at[p] = "out"
  /\ IF conn.isOpen
       THEN conn' = [ conn EXCEPT !.at[p] = "returned" ]
       ELSE IF conn.connectPromise = Undef
         THEN /\ conn.begun < MaxAttempts
              /\ \E early \in BOOLEAN :
                   conn' = [ conn EXCEPT !.connectPromise = "pending",
                                         !.connects = @ + 1,
                                         !.begun = @ + 1,
                                         !.isOpen = early,
                                         !.at[p] = "await" ]
         ELSE conn' = [ conn EXCEPT !.at[p] =
                          IF conn.connectPromise = "pending" THEN "await" ELSE "returned" ]
  /\ UNCHANGED gateVars

\* the connect in flight succeeds: the client is open, the promise stays
\* remembered, and the invocations awaiting it return, in the order they came,
\* before any other invocation runs
ConnectResolves ==
  /\ conn.connectPromise = "pending"
  /\ conn' = [ conn EXCEPT !.isOpen = TRUE,
                           !.connectPromise = "fulfilled",
                           !.connects = @ - 1,
                           !.at = [ p \in Procs |->
                                     IF conn.at[p] = "await" THEN "returned" ELSE conn.at[p] ] ]
  /\ UNCHANGED gateVars

\* the connect in flight fails: the client is not open, and the invocations
\* awaiting the promise, the one that began the connect among them, each run
\* the catch, which forgets the promise and throws the error again
ConnectRejects ==
  /\ conn.connectPromise = "pending"
  /\ conn' = [ conn EXCEPT !.isOpen = FALSE,
                           !.connectPromise = Undef,
                           !.connects = @ - 1,
                           !.at = [ p \in Procs |->
                                     IF conn.at[p] = "await" THEN "thrown" ELSE conn.at[p] ] ]
  /\ UNCHANGED gateVars

\* the invocation is over, and the framework calls the gate again
Leave(p) ==
  /\ conn.at[p] \in { "returned", "thrown" }
  /\ conn' = [ conn EXCEPT !.at[p] = "out" ]
  /\ UNCHANGED gateVars

InitConnect ==
  /\ windowMs = 250
  /\ tickMs = 250
  /\ useResolver = TRUE
  /\ hook = NoWebhook
  /\ BuiltGates
  /\ stop = [ u \in UserIds |-> Undef ]
  /\ input = [ p \in Procs |-> << UserMsg(p, "u1") >> ]
  /\ arrival = [ p \in Procs |-> NoArrival ]
  /\ InitStore
  /\ InitProcs

NextConnect ==
  \/ \E p \in Procs : ensureRedis(p)
  \/ ConnectResolves
  \/ ConnectRejects
  \/ \E p \in Procs : Leave(p)

SpecConnect == InitConnect /\ [][NextConnect]_vars

\* --------------------------------------------------------------- properties
\* the original message ids a returned message stands for
IdsOf(m) ==
  IF m.batched
    THEN { m.originalMessageIds[i] : i \in 1 .. Len(m.originalMessageIds) }
    ELSE { m.id }

\* the ids invocation p forwarded: those of the sequence it returned
ForwardedBy(p) ==
  IF pc[p] = "done" THEN UNION { IdsOf(out[p][i]) : i \in 1 .. Len(out[p]) } ELSE { }

AllFinished == \A p \in Procs : pc[p] \in FinalPcs

\* C1: no message loss.  Once every invocation has returned or aborted (no
\* process vanished, no store call failed), the id of every entry that was
\* appended is in the sequence some invocation returned, standalone or in the
\* originalMessageIds of a merged message.
C1_NoMessageLoss ==
  (AllFinished /\ faults = 0) =>
    \A p \in Procs :
      pushed[p] =>
        LastUserMessage(input[p]).id \in UNION { ForwardedBy(q) : q \in Procs }

\* C2: no duplicate forwarding.  No message id is forwarded by two invocations
\* (standalone by one and in the provenance of another's merged message, or in
\* the provenance of two merged messages).
C2_NoDuplicateForwarding ==
  \A p, q \in Procs : p /= q => ForwardedBy(p) \cap ForwardedBy(q) = { }

\* what an election attempt leads to: the refresh and from there the abort with
\* the pending reason when it finds the lock, the quiet-window wait when not
C3_ElectionOutcome ==
  \A p \in Procs :
    /\ (pc[p] = "bElect" /\ pc'[p] /= "bElect") =>
         pc'[p] = (IF lock[KeyOf(p)] THEN "bRefresh" ELSE "bWait")
    /\ (pc[p] = "bRefresh" /\ pc'[p] /= "bRefresh") =>
         (pc'[p] = "aborted" /\ reason'[p] = "redis-batching:pending")

\* C3: at most one leader.  As long as no lock of the conversation ran out of
\* time under a leader (one TTL period), at most one invocation is past the
\* election and before its release; an election attempt that finds the lock
\* goes to the refresh and from there aborts with the pending reason, and one
\* that finds no lock enters the quiet-window wait.
C3_AtMostOneLeader ==
  /\ [](\A u \in UserIds : ~ lapsed[u] => Cardinality(Leaders(u)) <= 1)
  /\ [][C3_ElectionOutcome]_vars

\* a leader is waiting and another invocation of the conversation got the abort
C3_Witness ==
  \E p, q \in Procs :
    /\ p /= q
    /\ KeyOf(p) = KeyOf(q)
    /\ pc[p] \in LeaderPcs
    /\ ~ lapsed[KeyOf(p)]
    /\ pc[q] = "aborted"
    /\ reason[q] = "redis-batching:pending"

\* two invocations lead the same conversation at once
TwoLeaders == \E u \in UserIds : Cardinality(Leaders(u)) >= 2

\* the entries of a batch are in strictly increasing createdAt order, each less
\* than windowMs after the one before, and none older than the model keeps
QuietGaps(es) ==
  /\ \A i \in 1 .. Len(es) : es[i].createdAt > 0 - AgeCap
  /\ \A i \in 1 .. Len(es) - 1 :
       /\ es[i].createdAt < es[i + 1].createdAt
       /\ es[i + 1].createdAt - es[i].createdAt < windowMs

\* C5: quiet-window correctness, the "never earlier" half.  When the leader has
\* just read the whole list (batch[p] holds the createdAt values as of that
\* read) and the entries were enqueued at t1 < ... < tn with every gap smaller
\* than windowMs, the read happened at tn + windowMs or later.
C5_FlushNotEarly ==
  \A p \in Procs :
    (pc[p] = "bDelList" /\ batch[p] /= << >> /\ QuietGaps(batch[p])) =>
      Now - batch[p][Len(batch[p])].createdAt >= windowMs

\* C9: stop-gate precedence.  An invocation whose conversation has the stop
\* flag "1" never gets past the stop gate: it aborts there with the stop reason,
\* appends no entry, sets no lock and forwards nothing.
C9_StopGatePrecedence ==
  \A p \in Procs :
    (~ Unresolved(KeyOf(p)) /\ stop[KeyOf(p)] = "1") =>
      /\ pc[p] \in { "idle", "sGet", "aborted" }
      /\ pc[p] = "aborted" => reason[p] = "redis-stop:active"
      /\ ~ pushed[p]
      /\ ForwardedBy(p) = { }
      /\ list[KeyOf(p)] = << >>
      /\ ~ lock[KeyOf(p)]

\* an invocation was aborted by the stop gate
C9_Witness ==
  \E p \in Procs :
    /\ ~ Unresolved(KeyOf(p))
    /\ stop[KeyOf(p)] = "1"
    /\ pc[p] = "aborted"
    /\ reason[p] = "redis-stop:active"

\* C4: self-healing after a crash.  An invocation that arrived more than
\* 3 * windowMs after a leader of its conversation vanished in the quiet-window
\* wait wins the election, and the batch it flushes holds the vanished leader's
\* entry (unless another invocation forwarded it before).
C4_SelfHealing ==
  \A n \in Procs :
    late[n] =>
      /\ pc[n] /= "bRefresh"
      /\ ~ (pc[n] = "aborted" /\ reason[n] = "redis-batching:pending")
      /\ pc[n] \in { "bDelList", "bDelLock", "done" } =>
           \A c \in Procs :
             (crashAge[c] /= NoCrash /\ KeyOf(c) = KeyOf(n)) =>
               \/ \E i \in 1 .. Len(batch[n]) :
                    batch[n][i].id = LastUserMessage(input[c]).id
               \/ \E q \in Procs \ { n } :
                    LastUserMessage(input[c]).id \in ForwardedBy(q)

\* C7 as claimed: once an invocation has failed, the lock it made is gone.
C7_LockGoneAfterFailure ==
  \A u \in UserIds : owner[u] /= NoProc => pc[owner[u]] /= "failed"

\* C7, amended: a leader that failed has issued redis.del(lockKey) in its catch
\* block; the lock it made is gone once it has failed unless that del failed.
C7_LockGoneUnlessDelFailed ==
  \A u \in UserIds :
    (owner[u] /= NoProc /\ pc[owner[u]] = "failed") => delFailed[owner[u]]

\* a leader failed after its flush read a batch, its catch block deleted the lock
C7_Witness ==
  \E p \in Procs :
    /\ pc[p] = "failed"
    /\ batch[p] /= << >>
    /\ ~ delFailed[p]
    /\ ~ lock[KeyOf(p)]

\* C10: idempotent passthrough.  An invocation whose message resolves to no
\* identifier returns its input unchanged: it never fails and never aborts,
\* appends no entry and sets no lock, whether or not the store can be reached.
C10_Passthrough ==
  \A p \in Procs :
    (input[p] /= << >> /\ HasUserMessage(input[p]) /\ Unresolved(KeyOf(p))) =>
      /\ pc[p] \in { "idle", "done" }
      /\ pc[p] = "done" => out[p] = input[p]
      /\ ~ pushed[p]
      /\ \A u \in UserIds : owner[u] /= p

\* C8: the scenario.  A wins the election and waits; B and C abort with the
\* pending reason after their append; A reads the list at 1900 ms and finds
\* exactly A, B, C; it returns one merged message whose originalMessageIds are
\* the three ids in that order, and then neither the list nor the lock exists.
C8_Scenario ==
  /\ pc[1] /= "bRefresh" /\ pc[1] /= "aborted"
  /\ \A q \in { 2, 3 } :
       pc[q] \in FinalPcs =>
         pc[q] = "aborted" /\ reason[q] = "redis-batching:pending" /\ pushed[q]
  /\ pc[1] = "bDelList" =>
       clock = 1900 /\ EntryIds(batch[1]) = << "m1", "m2", "m3" >>
  /\ pc[1] = "done" =>
       /\ Len(out[1]) = 1
       /\ out[1][1].batched
       /\ out[1][1].originalMessageIds = << "m1", "m2", "m3" >>
       /\ list["u1"] = << >>
       /\ ~ lock["u1"]
       /\ pc[2] = "aborted" /\ pc[3] = "aborted"

\* A has returned its merged message
C8_Witness == pc[1] = "done" /\ Len(out[1]) = 1 /\ out[1][1].batched

\* the lock of u was made by an invocation whose process has vanished
DeadLeaderLock(u) ==
  lock[u] /\ owner[u] /= NoProc /\ pc[owner[u]] = "crashed"

\* C11: lost election.  An invocation whose SET NX found the lock goes to the
\* refresh and nowhere else; its next step sets the time to live of the lock
\* (if the lock still exists) to 3 * windowMs and aborts with the pending reason,
\* leaving the list alone; it has read no batch and returns no sequence.
C11_LostElection ==
  [][ \A p \in Procs :
        /\ (pc[p] = "bElect" /\ lock[KeyOf(p)] /\ pc'[p] /= "bElect") =>
             pc'[p] = "bRefresh"
        /\ (pc[p] = "bRefresh" /\ pc'[p] /= "bRefresh") =>
             /\ pc'[p] = "aborted"
             /\ reason'[p] = "redis-batching:pending"
             /\ batch'[p] = << >> /\ out'[p] = << >>
             /\ list' = list
             /\ lock' = lock
             /\ lock[KeyOf(p)] => lockTtl'[KeyOf(p)] = Ttl ]_vars

\* a follower aborted after time had run off the lock of a waiting leader, and
\* the lock has its full time to live again
C11_Witness ==
  \E p, q \in Procs :
    /\ pc[p] = "aborted" /\ reason[p] = "redis-batching:pending"
    /\ pc[q] \in { "bWait", "bSleep" } /\ KeyOf(q) = KeyOf(p)
    /\ Len(list[KeyOf(p)]) = 2
    /\ Parse(list[KeyOf(p)][1]).createdAt < Now
    /\ lock[KeyOf(p)] /\ lockTtl[KeyOf(p)] = Ttl

\* the ids of the entries of a batch
BatchIds(es) == { es[i].id : i \in 1 .. Len(es) }

\* whether the leader's filter keeps message m of invocation p's input
KeptBy(p, m) == m.id \notin BatchIds(batch[p])

\* C12: merge result.  A leader that flushed a non-empty list returns its
\* input messages whose ids match no flushed entry, in their order, followed by
\* exactly one merged message; the input messages whose ids match are removed.
C12_MergeResult ==
  \A p \in Procs :
    (pc[p] = "done" /\ batch[p] /= << >>) =>
      LET kept == SelectSeq(input[p], LAMBDA m : KeptBy(p, m))
      IN /\ Len(out[p]) = Len(kept) + 1
         /\ SubSeq(out[p], 1, Len(kept)) = kept
         /\ out[p][Len(out[p])].batched
         /\ \A i \in 1 .. Len(kept) : ~ out[p][i].batched

\* a leader returned a kept message and the merged one, two of its input
\* messages having been removed
C12_Witness ==
  \E p \in Procs :
    /\ pc[p] = "done"
    /\ Len(batch[p]) = 2
    /\ Len(input[p]) = 3
    /\ Len(out[p]) = 2
    /\ out[p][1] = AssistantMsg

\* C13: empty flush.  A leader whose flush read an empty list returns, with
\* its release of the lock, the input it was called with, no merged message
\* in it, and the lock is absent when it has returned.
C13_EmptyFlush ==
  [][ \A p \in Procs :
        (pc[p] = "bDelLock" /\ pc'[p] = "done" /\ batch[p] = << >>) =>
          /\ out'[p] = input[p]
          /\ \A i \in 1 .. Len(out'[p]) : ~ out'[p][i].batched
          /\ ~ lock'[KeyOf(p)] ]_vars

\* a leader that had appended its entry flushed nothing and returned its input
C13_Witness ==
  \E p \in Procs :
    /\ pc[p] = "done"
    /\ pushed[p]
    /\ batch[p] = << >>
    /\ out[p] = input[p]
    /\ ~ lock[KeyOf(p)]

\* the last n elements of a sequence
Suffix(q, n) == SubSeq(q, Len(q) - n + 1, Len(q))

\* the parts of the entries of a batch, one after the other
RECURSIVE PartsInOrder(_, _)
PartsInOrder(es, i) ==
  IF i > Len(es) THEN << >> ELSE es[i].content.parts \o PartsInOrder(es, i + 1)

\* C14: order preservation.  The ids of the batch a flush reads are, in order,
\* the ids of the latest appends the store applied to the list; the merged
\* message a leader returns has the parts of the batch's entries and their
\* ids in originalMessageIds in that same order.
C14_OrderPreserved ==
  [][ \A p \in Procs :
        /\ (pc[p] = "bRange" /\ pc'[p] = "bDelList") =>
             /\ Len(batch'[p]) <= Len(applied[KeyOf(p)])
             /\ [ i \in 1 .. Len(batch'[p]) |-> batch'[p][i].id ]
                  = Suffix(applied[KeyOf(p)], Len(batch'[p]))
        /\ (pc[p] = "bDelLock" /\ pc'[p] = "done" /\ batch[p] /= << >>) =>
             LET merged == out'[p][Len(out'[p])]
             IN /\ merged.originalMessageIds
                     = [ i \in 1 .. Len(batch[p]) |-> batch[p][i].id ]
                /\ merged.parts = PartsInOrder(batch[p], 1) ]_vars

\* a leader returned the merge of two entries, the later invocation's first
C14_Witness ==
  \E p \in Procs :
    /\ pc[p] = "done"
    /\ Len(out[p]) = 1
    /\ out[p][1].batched
    /\ out[p][1].originalMessageIds = << "m2", "m1" >>
    /\ out[p][1].parts = << "m2", "m1" >>

\* the flag values that stop, as the specification lists them
StoppingValue(v) ==
  v \notin { Undef, "", "0", "false", "False", "FALSE", "fAlSe" }

\* C15: stop gate decision.  The step the gate takes on the flag it read aborts
\* with the stop reason exactly when the value is present, not empty, not "0"
\* and not "false" in any casing; otherwise the messages go on unchanged to the
\* next processor.
C15_StopDecision ==
  [][ \A p \in Procs :
        (pc[p] = "sGet" /\ pc'[p] /= "sGet") =>
          IF StoppingValue(stop[KeyOf(p)])
            THEN pc'[p] = "aborted" /\ reason'[p] = "redis-stop:active"
            ELSE pc'[p] = "bPush" /\ input'[p] = input[p] /\ reason'[p] = Undef ]_vars

\* the gate let a message through whose flag is "false" in mixed case
C15_Witness ==
  \E p \in Procs :
    /\ pc[p] = "bPush"
    /\ stop[KeyOf(p)] = "fAlSe"

\* C16: stop gate frame.  A step of an invocation that stands in the stop gate
\* (before its get, or at it), whether it goes on, returns, aborts or fails,
\* changes neither the stop flags nor any list, lock or time to live.
C16_StopGateFrame ==
  [][ \A p \in Procs :
        (pc[p] \in { "idle", "sGet" } /\ pc'[p] /= pc[p]) =>
          /\ stop' = stop
          /\ list' = list /\ listTtl' = listTtl
          /\ lock' = lock /\ lockTtl' = lockTtl ]_vars

\* while a leader holds the lock of u1 and its list has an entry, the gate has
\* stopped one invocation and let another through
C16_Witness ==
  \E p, q \in Procs :
    /\ pc[p] = "aborted" /\ reason[p] = "redis-stop:active"
    /\ pc[q] = "bPush"
    /\ lock["u1"] /\ list["u1"] /= << >>

RECURSIVE FirstNonEmpty(_)
FirstNonEmpty(ids) ==
  IF ids = << >> THEN Undef
  ELSE IF Head(ids) /= Undef /\ Head(ids) /= "" THEN Head(ids)
  ELSE FirstNonEmpty(Tail(ids))

\* the conversation key of message m as the specification describes it
ChainKey(m) ==
  FirstNonEmpty(<< IF useResolver THEN resolveConversationId(m) ELSE Undef,
                   m.threadId, m.resourceId, m.userId >>)

\* C18: identifier resolution.  An invocation that has got past the
\* resolution coordinates under the first non-empty identifier of the chain
\* resolver, thread, resource, metadata user id, and it skips coordination
\* (returns its input with no append) only when all four are empty.
C18_FirstNonEmptyWins ==
  \A p \in Procs :
    (pc[p] /= "idle" /\ input[p] /= << >>) =>
      LET key == ChainKey(LastUserMessage(input[p]))
      IN IF key = Undef
           THEN Unresolved(KeyOf(p)) /\ pc[p] = "done" /\ ~ pushed[p]
           ELSE KeyOf(p) = key /\ ~ (pc[p] = "done" /\ ~ pushed[p])

\* C19: stop gate connectivity error.  When the connect or the get of an
\* invocation that stands in the stop gate fails, the invocation ends with the
\* error: it has returned nothing and given no reason to abort.
C19_StopGateError ==
  [][ \A p \in Procs :
        (pc[p] \in { "idle", "sGet" } /\ pc'[p] /= pc[p] /\ faults' /= faults) =>
          /\ pc'[p] = "failed"
          /\ out'[p] = << >>
          /\ reason'[p] \notin { Undef, "redis-stop:active", "redis-batching:pending" } ]_vars

\* an invocation whose conversation is stopped failed in the gate
C19_Witness ==
  \E p \in Procs :
    /\ pc[p] = "failed"
    /\ KeyOf(p) = "u2"
    /\ stop["u2"] = "1"
    /\ out[p] = << >>

\* the conversation of invocation p's message
ConvOf(p) == ChainKey(LastUserMessage(input[p]))

\* a step of invocation p leaves the list and the lock of every conversation
\* but its own as they are
OwnKeysOnly ==
  \A p \in Procs :
    pc'[p] /= pc[p] =>
      \A u \in UserIds \ { ConvOf(p) } :
        /\ list'[u] = list[u] /\ listTtl'[u] = listTtl[u]
        /\ lock'[u] = lock[u] /\ lockTtl'[u] = lockTtl[u]

\* C20: independence of conversations.  Every step of an invocation for a key
\* leaves the list and the lock of every other key unchanged, and an invocation
\* that is the only one of its conversation never loses the election and never
\* aborts, whoever leads another conversation.
C20_Independence ==
  /\ [][OwnKeysOnly]_vars
  /\ [](\A p \in Procs :
          (\A q \in Procs \ { p } : ConvOf(q) /= ConvOf(p)) =>
            pc[p] \notin { "bRefresh", "aborted" })

\* while a leader waits on u1 and a follower of u1 has aborted, the invocation
\* of u2 has led, flushed and returned its merged message
C20_Witness ==
  \E p, q, r \in Procs :
    /\ ConvOf(p) = "u1" /\ pc[p] \in { "bWait", "bSleep" } /\ lock["u1"]
    /\ ConvOf(q) = "u1" /\ pc[q] = "aborted"
    /\ ConvOf(r) = "u2" /\ pc[r] = "done" /\ Len(out[r]) = 1 /\ out[r][1].batched

\* C6: TTL self-healing as liveness.  Whenever the lock of a conversation is
\* held by a leader that vanished, the lock is eventually absent, whatever
\* requests arrive later.
C6_TtlSelfHealing ==
  \A u \in UserIds : DeadLeaderLock(u) ~> ~ lock[u]

\* C21: configuration error.  With no connection string in the options and
\* none in the environment the constructors end with the error, and whenever a
\* request is being processed the processors were constructed with a
\* connection string that is not empty.
C21_ConfigError ==
  /\ (gate /= "new" /\ optUrl = Undef /\ envUrl \in { Undef, "" }) => gate = "configError"
  /\ gate = "ready" => RedisUrl \notin { Undef, "" }
  /\ (\E p \in Procs : pc[p] /= "idle") => gate = "ready"

\* construction failed for want of a connection string, and no request ran
C21_Witness ==
  /\ gate = "configError"
  /\ optUrl = Undef /\ envUrl = Undef
  /\ \A p \in Procs : pc[p] = "idle"

\* C22: webhook authorization.  With a token configured, a call is processed
\* exactly when its Authorization header is "Bearer <token>"; any other call,
\* one without the header included, ends with UnauthorizedWebhookError and has
\* no messages; with a blank token every call is processed.
C22_WebhookAuthorization ==
  hook.result.type /= "none" =>
    IF hook.token \in { Undef, "" } \/ hook.header = ExpectedHeader(hook.token)
      THEN hook.result.type \in { "test", "webhook" }
      ELSE /\ hook.result.type = "UnauthorizedWebhookError"
           /\ hook.result.messages = << >>
           /\ hook.result.inboundMessages = << >>

\* what C23 says of the merged message a leader returned, but for createdAt
MergedFromTemplate(p) ==
  LET merged == out[p][Len(out[p])]
      template == LastUserMessage(input[p])
  IN /\ merged.id = template.id \o ":batched"
     /\ merged.parts = PartsInOrder(batch[p], 1)
     /\ merged.batched
     /\ merged.batchWindowMs = windowMs
     /\ merged.originalMessageIds = [ i \in 1 .. Len(batch[p]) |-> batch[p][i].id ]
     /\ merged.userId = template.userId
     /\ merged.role = template.role
     /\ merged.threadId = template.threadId
     /\ merged.resourceId = template.resourceId
     /\ ~ template.batched /\ template.createdAt = "received"

\* C23 as claimed: every envelope field of the merged message but its id and
\* its content equals the template's, createdAt included.
C23_EnvelopeEqualsTemplate ==
  \A p \in Procs :
    (pc[p] = "done" /\ batch[p] /= << >>) =>
      /\ MergedFromTemplate(p)
      /\ out[p][Len(out[p])].createdAt = LastUserMessage(input[p]).createdAt

\* C23, amended: the merged message has the template's id with the suffix
\* ":batched", the entries' parts in list order, the template's metadata with
\* batched, batchWindowMs and originalMessageIds added, a createdAt of its own
\* (the moment of the merge), and the template's role, threadId and
\* resourceId; the template is as it was.
C23_MergedMessage ==
  \A p \in Procs :
    (pc[p] = "done" /\ batch[p] /= << >>) =>
      /\ MergedFromTemplate(p)
      /\ out[p][Len(out[p])].createdAt = "merged"

\* a leader merged two entries on a template that has a threadId
C23_Witness ==
  \E p \in Procs :
    /\ pc[p] = "done"
    /\ Len(batch[p]) = 2
    /\ LastUserMessage(input[p]).threadId = "u1"
    /\ out[p][Len(out[p])].batched

\* the steps of an invocation up to its election come in the order append,
\* expiry of the list, election
EnqueueThenElect ==
  \A p \in Procs :
    /\ (pc'[p] = "bExpire" /\ pc[p] /= "bExpire") =>
         /\ pc[p] = "bPush"
         /\ Len(list'[KeyOf(p)]) = Len(list[KeyOf(p)]) + 1
         /\ Parse(list'[KeyOf(p)][Len(list'[KeyOf(p)])]).id = LastUserMessage(input[p]).id
    /\ (pc'[p] = "bElect" /\ pc[p] /= "bElect") =>
         /\ pc[p] = "bExpire"
         /\ list[KeyOf(p)] /= << >> => listTtl'[KeyOf(p)] = Ttl
    /\ (pc'[p] \in { "bWait", "bRefresh" } /\ pc[p] \notin { "bWait", "bRefresh", "bSleep" }) =>
         pc[p] = "bElect"

\* C24: enqueue before elect.  An invocation appends its entry, then sets the
\* time to live of the list to 3 * windowMs, then attempts the election; an
\* invocation that stands at the election, or has won or lost it, has appended
\* its entry.
C24_EnqueueBeforeElect ==
  /\ [][EnqueueThenElect]_vars
  /\ [](\A p \in Procs :
          pc[p] \in LeaderPcs \cup { "bElect", "bRefresh" } => pushed[p])

\* an invocation has lost the election while its entry is the tail of the
\* list, after another one, and the list has its full time to live
C24_Witness ==
  \E p \in Procs :
    /\ pc[p] = "bRefresh"
    /\ Len(list[KeyOf(p)]) = 2
    /\ Parse(list[KeyOf(p)][2]).id = LastUserMessage(input[p]).id
    /\ listTtl[KeyOf(p)] = Ttl

\* C25: flush atomicity.  Between the read and the delete of a leader's flush
\* the list holds exactly the entries the read returned, so the delete removes
\* no entry that is not in the batch.
C25_FlushAtomic ==
  \A p \in Procs :
    pc[p] = "bDelList" =>
      [ i \in 1 .. Len(list[KeyOf(p)]) |-> Parse(list[KeyOf(p)][i]).id ]
        = [ i \in 1 .. Len(batch[p]) |-> batch[p][i].id ]

\* C26: wait latency bound.  With store round trips that take no time, a
\* leader that leaves awaitQuietWindow over a list that is not empty starts its
\* flush no later than windowMs after the createdAt of the last entry of the
\* list, which is within the bound windowMs + PollMs, however many entries
\* arrived before that one.
C26_WaitLatency ==
  \A p \in Procs :
    ( pc[p] = "bRange" /\ LIndex(KeyOf(p)) /= Undef ) =>
      /\ Now - Parse(LIndex(KeyOf(p))).createdAt <= windowMs
      /\ Now - Parse(LIndex(KeyOf(p))).createdAt <= windowMs + PollMs

\* a leader starts its flush over two entries, windowMs after the second one
C26_Witness ==
  \E p \in Procs :
    /\ pc[p] = "bRange"
    /\ Len(list[KeyOf(p)]) = 2
    /\ Now - Parse(LIndex(KeyOf(p))).createdAt = windowMs
    /\ Now - Parse(list[KeyOf(p)][1]).createdAt > windowMs

\* C27: no TTL expiry under a live leader.  When every store round trip and
\* every timer overshoot takes less than windowMs, the passage of time removes
\* neither the list nor the lock of a conversation while one of its leaders is
\* between its election and the end of its flush.
FlushingPcs == { "bWait", "bSleep", "bRange", "bDelList" }

C27_NoExpiryUnderLeader ==
  [][ \A u \in UserIds :
        ( /\ tickMs < windowMs
          /\ \E p \in Procs : pc[p] \in FlushingPcs /\ KeyOf(p) = u ) =>
          ~ ( /\ pc' = pc
              /\ \/ lock[u] /\ ~ lock'[u]
                 \/ list[u] /= << >> /\ list'[u] = << >> ) ]_vars

\* C28: the tail timestamp is the last arrival.  The entries of every list
\* stand in non-decreasing order of createdAt, so the createdAt of the last
\* entry is the greatest of the list.
C28_TailIsLastArrival ==
  \A u \in UserIds :
    \A i \in 1 .. Len(list[u]) :
      Parse(list[u][i]).createdAt <= Parse(list[u][Len(list[u])]).createdAt

C30_ReleaseOwnLock ==
  [][ \A p \in Procs :
        ( /\ pc[p] \in { "bDelLock", "bCatch" }
          /\ pc'[p] /= pc[p]
          /\ lock[KeyOf(p)]
          /\ ~ lock'[KeyOf(p)] ) =>
          owner[KeyOf(p)] = p ]_vars

\* C31: follower frame.  No step of an invocation from its append to the
\* abort of its lost election removes anything: every list keeps the entries it
\* had, in their places, and every lock that exists stays, with a time to live
\* that is not shorter than before; on the step that raises the abort too.
FollowerPcs == { "bPush", "bExpire", "bElect", "bRefresh" }

C31_FollowerFrame ==
  [][ \A p \in Procs :
        ( pc[p] \in FollowerPcs /\ pc'[p] /= pc[p] /\ pc'[p] \in BatchingPcs \cup { "aborted" } ) =>
          \A u \in UserIds :
            /\ Len(list'[u]) >= Len(list[u])
            /\ SubSeq(list'[u], 1, Len(list[u])) = list[u]
            /\ lock[u] => ( lock'[u] /\ lockTtl'[u] >= lockTtl[u] )
            /\ ( listTtl[u] /= NoTtl ) => listTtl'[u] >= listTtl[u] ]_vars

\* a follower has aborted with the pending reason; the lock it found is there
\* with a full time to live and the list holds the leader's entry and its own
C31_Witness ==
  \E p \in Procs :
    /\ pc[p] = "aborted"
    /\ reason[p] = "redis-batching:pending"
    /\ lock[KeyOf(p)]
    /\ lockTtl[KeyOf(p)] = Ttl
    /\ owner[KeyOf(p)] /= p
    /\ Len(list[KeyOf(p)]) = 2
    /\ Parse(list[KeyOf(p)][2]).id = LastUserMessage(input[p]).id

\* C32: the lock outlives the list.  Whenever the list of a conversation
\* exists with an expiry and its lock exists, the lock has at least as long to
\* live as the list.
C32_LockOutlivesList ==
  \A u \in UserIds :
    ( lock[u] /\ list[u] /= << >> /\ listTtl[u] /= NoTtl ) =>
      lockTtl[u] >= listTtl[u]

\* C33: the leader's own entry is in its batch.  A batch that a leader read and
\* that is not empty holds the entry with the id of the leader's own last user
\* message, and so a leader that returns a merged message does not return its
\* own message next to it.
C33_OwnEntryInBatch ==
  \A p \in Procs :
    /\ ( pc[p] \in { "bDelList", "bDelLock", "done" } /\ batch[p] /= << >> ) =>
          \E i \in 1 .. Len(batch[p]) : batch[p][i].id = LastUserMessage(input[p]).id
    /\ ( pc[p] = "done" /\ batch[p] /= << >> ) =>
          \A i \in 1 .. Len(out[p]) : out[p][i].id /= LastUserMessage(input[p]).id

\* C34: no orphaned entries.  With no process vanishing and no store call
\* failing, a list that is not empty has its lock, or some invocation of its
\* conversation stands between its append and its election; and once every
\* invocation has returned or aborted every list is empty.
C34_NoOrphanedEntries ==
  \A u \in UserIds :
    /\ list[u] /= << >> =>
          \/ lock[u]
          \/ \E p \in Procs : pc[p] \in { "bExpire", "bElect" } /\ KeyOf(p) = u
    /\ AllFinished => list[u] = << >>

\* the step in which the lIndex of the wait or the lRange of the flush
\* rejects: the list is as it was
ReadErrorKeepsList(p) ==
  ( pc[p] \in { "bWait", "bRange" } /\ pc'[p] = "bCatch" ) => list' = list

\* C35 as claimed: when a read of the wait or of the flush fails, the leader
\* leaves the list as it was, and it has released the lock when the error
\* leaves processInput.
C35_ReadErrorReleases ==
  [][ \A p \in Procs :
        /\ ReadErrorKeepsList(p)
        /\ ( pc[p] = "bCatch" /\ pc'[p] /= "bCatch" ) =>
             /\ pc'[p] = "failed"
             /\ list' = list
             /\ ~ lock'[KeyOf(p)] ]_vars

\* C35, amended: when a read of the wait or of the flush fails, the leader
\* leaves the list as it was and issues redis.del(lockKey) before the error
\* leaves processInput; the lock is gone then unless that del failed too, and
\* with the lock gone the SET NX of the next invocation answers 'OK'.
C35_ReadErrorPreservesBatch ==
  [][ \A p \in Procs :
        /\ ReadErrorKeepsList(p)
        /\ ( pc[p] = "bCatch" /\ pc'[p] /= "bCatch" ) =>
             /\ pc'[p] = "failed"
             /\ reason'[p] = "error"
             /\ list' = list
             /\ ~ delFailed'[p] => ~ lock'[KeyOf(p)]
        /\ ( pc[p] = "bElect" /\ pc'[p] = "bRefresh" ) => lock[KeyOf(p)] ]_vars

\* the read of a leader failed before it had a batch: the leader stands in its
\* catch block, it still holds the lock, and the list holds its entry and the
\* entry of a follower
C35_Witness ==
  \E p \in Procs :
    /\ pc[p] = "bCatch"
    /\ batch[p] = << >>
    /\ lock[KeyOf(p)]
    /\ owner[KeyOf(p)] = p
    /\ Len(list[KeyOf(p)]) = 2
    /\ Parse(list[KeyOf(p)][1]).id = MsgId(p)

\* C36: no-op inputs.  An invocation called with no message, or with no
\* message of role user, returns its input as it is: it never fails and never
\* aborts, whether or not the store can be reached, and none of its steps reads
\* or writes the store.
NoOpInput(p) == input[p] = << >> \/ ~ HasUserMessage(input[p])

C36_NoOpInputs ==
  /\ [](\A p \in Procs :
         NoOpInput(p) =>
           /\ pc[p] \in { "idle", "done" }
           /\ pc[p] = "done" => out[p] = input[p]
           /\ ~ pushed[p])
  /\ [][ \A p \in Procs :
           ( NoOpInput(p) /\ pc'[p] /= pc[p] ) =>
             /\ UNCHANGED << storeVars, stop, faults >>
             /\ pc[p] = "idle" /\ pc'[p] = "done" ]_vars

\* an invocation called with assistant messages only has returned them after
\* as many store calls failed as can fail
C36_Witness ==
  \E p \in Procs :
    /\ input[p] = << AssistantMsg, AssistantMsg >>
    /\ pc[p] = "done"
    /\ out[p] = input[p]
    /\ faults = MaxFailures

\* the step of invocation p that appends: one entry more at the tail of the
\* list of its conversation, with the id and the content of the last user
\* message of its input
AppendsOwnEntry(p) ==
  LET u == KeyOf(p)
      m == LastUserMessage(input[p])
  IN /\ ~ pushed[p] /\ pushed'[p]
     /\ Len(list'[u]) = Len(list[u]) + 1
     /\ SubSeq(list'[u], 1, Len(list[u])) = list[u]
     /\ Parse(list'[u][Len(list'[u])]).id = m.id
     /\ Parse(list'[u][Len(list'[u])]).content = [ parts |-> m.parts, userId |-> m.userId ]
     /\ \A v \in UserIds \ { u } : list'[v] = list[v]

\* C37: one entry per invocation.  An invocation with a key appends once, at
\* its rPush, one entry with the id and the content of the last user message
\* of its input, and none of its other steps makes a list longer; a leader
\* that flushed entries returns the other messages of its input whose ids match
\* no flushed entry, in their order, and the merged message last.
C37_OneEntryPerInvocation ==
  [][ \A p \in Procs :
        /\ ( pc[p] = "bPush" /\ pc'[p] = "bExpire" ) => AppendsOwnEntry(p)
        /\ ( pc'[p] /= pc[p] /\ pc[p] /= "bPush" ) =>
             /\ pushed'[p] = pushed[p]
             /\ \A u \in UserIds : Len(list'[u]) <= Len(list[u])
        /\ ( pc[p] = "bDelLock" /\ pc'[p] = "done" /\ batch[p] /= << >> ) =>
             LET kept == SelectSeq(input[p], LAMBDA m : KeptBy(p, m))
             IN /\ out'[p] = kept \o << out'[p][Len(out'[p])] >>
                /\ out'[p][Len(out'[p])].batched
                /\ out'[p][Len(out'[p])].originalMessageIds = EntryIds(batch[p]) ]_vars

\* invocation 1, called with an assistant message and the user messages m2
\* and m1, has appended: the list holds one entry, that of m1
C37_Witness ==
  /\ pc[1] = "bExpire"
  /\ input[1] = << AssistantMsg, UserMsg(2, "u1"), UserMsg(1, "u1") >>
  /\ Len(list["u1"]) = 1
  /\ Parse(list["u1"][1]).id = "m1"

\* no element stands at two places of a sequence
NoRepeats(q) == \A i, j \in 1 .. Len(q) : q[i] = q[j] => i = j

\* C38: re-delivery is deduplicated.  When two invocations of a conversation
\* submit the same message id within one batch, the merged message a leader
\* returns lists every id once in originalMessageIds and holds the parts of
\* every message once.
C38_RedeliveryDeduplicated ==
  \A p \in Procs :
    pc[p] = "done" =>
      \A i \in 1 .. Len(out[p]) :
        out[p][i].batched =>
          /\ NoRepeats(out[p][i].originalMessageIds)
          /\ NoRepeats(out[p][i].parts)

\* C39: leader termination.  When store calls complete, time passes, every
\* invocation keeps taking its steps and the appends stop, an invocation that
\* won the election eventually returns.
C39_LeaderTerminates ==
  \A p \in Procs : ( pc[p] \in LeaderPcs ) ~> ( pc[p] \in FinalPcs )

\* a leader has returned the merged message of two entries it waited for
C39_Witness ==
  \E p \in Procs :
    /\ pc[p] = "done"
    /\ Len(batch[p]) = 2
    /\ out[p][Len(out[p])].batched
    /\ batch[p][2].createdAt > batch[p][1].createdAt

\* C40: shared connection attempt.  The invocations of one gate instance that
\* find the client not open share one connect: at most one connect is in
\* flight, and an invocation that finds an attempt remembered awaits it and
\* begins none.  When the attempt fails, every invocation awaiting it fails and
\* the attempt is forgotten, and an invocation that comes afterwards begins a
\* fresh connect.
C40_SharedConnect ==
  [][ /\ conn'.connects <= 1
      /\ \A p \in Procs :
           ( conn.at[p] = "out" /\ conn'.at[p] = "await" /\ conn.connectPromise # Undef ) =>
             ( conn'.connects = conn.connects /\ conn'.begun = conn.begun )
      /\ ( conn'.connects < conn.connects /\ ~ conn'.isOpen ) =>
           /\ \A p \in Procs : conn.at[p] = "await" => conn'.at[p] = "thrown"
           /\ conn'.connectPromise = Undef
      /\ \A p \in Procs :
           ( conn.at[p] = "out" /\ conn'.at[p] # "out" /\ ~ conn.isOpen /\ conn.connects = 0 ) =>
             ( conn'.at[p] = "await" /\ conn'.connects = 1 /\ conn'.begun = conn.begun + 1 ) ]_vars

\* an attempt has failed under one invocation, and two others share the
\* second attempt, which is in flight
C40_Witness ==
  /\ conn.begun = 2
  /\ conn.connects = 1
  /\ ~ conn.isOpen
  /\ \E p, q, r \in Procs :
       /\ p # q
       /\ conn.at[p] = "await" /\ conn.at[q] = "await"
       /\ conn.at[r] = "thrown"

====
